---------------------------- MODULE Spec2Model ----------------------------
(***************************************************************************)
(* The vertical-equilibrium (VE) variant of the regularized Brooks-Corey   *)
(* material law of opm-material:                                           *)
(*   RegularizedBrooksCoreyParamsVE  (the parameter object)                *)
(*   RegularizedBrooksCoreyVE        (the law: capillaryPressures,         *)
(*                                    relativePermeabilities)              *)
(*                                                                         *)
(* Scalar is a template parameter of the law (TraitsT::Scalar).  It is     *)
(* modelled by exact rational arithmetic: a scalar is a fraction n/d in    *)
(* lowest terms with d > 0; the result of a division by zero is the        *)
(* single value NonFinite (the inf/NaN of a floating point Scalar).        *)
(***************************************************************************)
EXTENDS Integers, Sequences, FiniteSets, TLC

(***************************************************************************)
(* Bounds of the model.                                                    *)
(***************************************************************************)
\* saturations S, Smax range over k/SatSteps, k in 0..SatSteps
SatSteps == 3
\* residual saturations passed to the setters range over k/ResSteps
ResSteps == 4
\* column heights H range over 1..MaxH, interface heights over 0..MaxH
MaxH == 2

(***************************************************************************)
(* Scalar arithmetic.                                                      *)
(***************************************************************************)
Abs(x) == IF x < 0 THEN -x ELSE x

RECURSIVE GCD(_, _)
GCD(a, b) == IF b = 0 THEN a ELSE GCD(b, a % b)

NonFinite == [n |-> 0, d |-> 0]

IsFinite(a) == a.d # 0

\* the fraction n/d in lowest terms, d > 0
Rat(n, d) ==
    IF d = 0 THEN NonFinite
    ELSE LET g == GCD(Abs(n), Abs(d))
             s == IF d < 0 THEN -1 ELSE 1
         IN  [n |-> (s * n) \div g, d |-> (s * d) \div g]

Zero == Rat(0, 1)
One == Rat(1, 1)

Add(a, b) ==
    IF IsFinite(a) /\ IsFinite(b) THEN Rat(a.n * b.d + b.n * a.d, a.d * b.d)
    ELSE NonFinite

Sub(a, b) ==
    IF IsFinite(a) /\ IsFinite(b) THEN Rat(a.n * b.d - b.n * a.d, a.d * b.d)
    ELSE NonFinite

Mul(a, b) ==
    IF IsFinite(a) /\ IsFinite(b) THEN Rat(a.n * b.n, a.d * b.d)
    ELSE NonFinite

Div(a, b) ==
    IF IsFinite(a) /\ IsFinite(b) THEN Rat(a.n * b.d, a.d * b.n)
    ELSE NonFinite

\* comparisons; every comparison with NonFinite is false
Le(a, b) == IsFinite(a) /\ IsFinite(b) /\ a.n * b.d <= b.n * a.d
Lt(a, b) == IsFinite(a) /\ IsFinite(b) /\ a.n * b.d < b.n * a.d

Sign(a) == IF a.n > 0 THEN 1 ELSE IF a.n < 0 THEN -1 ELSE 0

(***************************************************************************)
(* Input domains.                                                          *)
(***************************************************************************)
\* saturations of a fluid state
Saturations == { Rat(k, SatSteps) : k \in 0..SatSteps }
\* values handed to setResidualSaturation: the setter accepts any scalar,
\* so the grid includes values whose sum reaches 1
Residuals == { Rat(k, ResSteps) : k \in 0..ResSteps }
\* values handed to setKrnEndPoint / setKrwEndPoint: any scalar is accepted
KrnEndPoints == { Rat(1, 100), Rat(-1, 2) }
KrwEndPoints == { Rat(1, 100), Rat(1, 2) }
Heights == { Rat(k, 1) : k \in 1..MaxH }
Densities == { Rat(1, 1), Rat(2, 1) }
Viscosities == { Rat(1, 2), Rat(2, 1) }

\* Traits::wettingPhaseIdx, Traits::nonWettingPhaseIdx (two-phase traits)
wettingPhaseIdx == 0
nonWettingPhaseIdx == 1
\* phase indices a caller may pass (2: neither phase)
PhaseIndices == {wettingPhaseIdx, nonWettingPhaseIdx, 2}

\* heights h, hmax handed to the relative permeability functions
InterfaceHeights == { Rat(k, 1) : k \in 0..MaxH }
\* what the plain law may have left in the output container <<wetting, nonWetting>>
Baselines == { <<Zero, One>>, <<One, Rat(3, 1)>> }
\* what the plain law's saturations may have left in the output container
PlainSaturations == { <<One, Zero>>, <<Rat(1, 4), Rat(3, 4)>> }
\* fluid states: Smax is the largest non-wetting saturation seen, so S <= Smax
FluidStates ==
    { fs \in [S : Saturations, Smax : Saturations, density_w : Densities,
              density_n : Densities, viscosity_w : Viscosities] :
        Le(fs.S, fs.Smax) }

VARIABLES
    srw_,           \* residual wetting saturation
    srn_,           \* residual non-wetting saturation
    krnEndPoint_,   \* non-wetting end point
    krwEndPoint_,   \* wetting end point
    finalized_,     \* EnsureFinalized's flag of the parameter object
    finalizeCalled, \* history: finalize() of the VE class has been called
    aborted,        \* a contract violation (failed assertion) ended the run
    op,             \* the call the caller made last ("none": no call pending)
    args,           \* its arguments, a record
    ret,            \* <<>>, or <<r>> when the call returned r
    values          \* <<>>, or the output container <<wetting, nonWetting>>

vars == <<srw_, srn_, krnEndPoint_, krwEndPoint_, finalized_, finalizeCalled,
          aborted, op, args, ret, values>>

NoArgs == [nargs |-> 0]

\* the default constructor; EnsureFinalized starts not finalized.  (The
\* (entryPressure, lambda) constructor sets the same four fields and calls
\* finalize(); what its base-class part does is outside these files.)
Init ==
    /\ srw_ = Zero
    /\ srn_ = Zero
    /\ krnEndPoint_ = Rat(1, 100)
    /\ krwEndPoint_ = Rat(1, 100)
    /\ finalized_ = FALSE
    /\ finalizeCalled = FALSE
    /\ aborted = FALSE
    /\ op = "none"
    /\ args = NoArgs
    /\ ret = <<>>
    /\ values = <<>>

\* the caller is sequential: it makes a call when none is pending
Ready == ~aborted /\ op = "none"

\* EnsureFinalized::check(): passes iff the object is finalized
EnsureFinalized_check == finalized_

\* RegularizedBrooksCoreyParams::finalize(): marks the object finalized
RegularizedBrooksCoreyParams_finalize == finalized_' = TRUE

(***************************************************************************)
(* The parameter object.                                                   *)
(***************************************************************************)
setKrnEndPoint(value) ==
    /\ Ready
    /\ krnEndPoint_' = value
    /\ op' = "setKrnEndPoint"
    /\ args' = [value |-> value]
    /\ UNCHANGED <<srw_, srn_, krwEndPoint_, finalized_, finalizeCalled, aborted, ret, values>>

setKrwEndPoint(value) ==
    /\ Ready
    /\ krwEndPoint_' = value
    /\ op' = "setKrwEndPoint"
    /\ args' = [value |-> value]
    /\ UNCHANGED <<srw_, srn_, krnEndPoint_, finalized_, finalizeCalled, aborted, ret, values>>

setResidualSaturation(phaseIdx, value) ==
    /\ Ready
    /\ srw_' = IF phaseIdx = wettingPhaseIdx THEN value ELSE srw_
    /\ srn_' = IF phaseIdx = wettingPhaseIdx THEN srn_
               ELSE IF phaseIdx = nonWettingPhaseIdx THEN value ELSE srn_
    /\ op' = "setResidualSaturation"
    /\ args' = [phaseIdx |-> phaseIdx, value |-> value]
    /\ UNCHANGED <<krnEndPoint_, krwEndPoint_, finalized_, finalizeCalled, aborted, ret, values>>

finalizePlain ==
    /\ Ready
    /\ RegularizedBrooksCoreyParams_finalize
    /\ op' = "finalizePlain"
    /\ args' = NoArgs
    /\ UNCHANGED <<srw_, srn_, krnEndPoint_, krwEndPoint_, finalizeCalled, aborted, ret, values>>

\* the body of finalize() is empty
finalize ==
    /\ Ready
    /\ finalizeCalled' = TRUE
    /\ op' = "finalize"
    /\ args' = NoArgs
    /\ UNCHANGED <<srw_, srn_, krnEndPoint_, krwEndPoint_, finalized_, aborted, ret, values>>

\* a getter guarded by EnsureFinalized::check()
CheckedGet(name, field) ==
    /\ Ready
    /\ op' = name
    /\ args' = NoArgs
    /\ IF EnsureFinalized_check
         THEN ret' = <<field>> /\ aborted' = FALSE
         ELSE ret' = <<>> /\ aborted' = TRUE
    /\ UNCHANGED <<srw_, srn_, krnEndPoint_, krwEndPoint_, finalized_, finalizeCalled, values>>

krnEndPoint == CheckedGet("krnEndPoint", krnEndPoint_)

krwEndPoint == CheckedGet("krwEndPoint", krwEndPoint_)

getResidualSaturation(phaseIdx) ==
    /\ Ready
    /\ op' = "getResidualSaturation"
    /\ args' = [phaseIdx |-> phaseIdx]
    /\ ret' = << IF phaseIdx = wettingPhaseIdx THEN srw_
                 ELSE IF phaseIdx = nonWettingPhaseIdx THEN srn_
                 ELSE Zero >>
    /\ UNCHANGED <<srw_, srn_, krnEndPoint_, krwEndPoint_, finalized_, finalizeCalled, aborted, values>>

\* compute_h_FromSandSmax without the trapped part Smax*srn_
compute_h_WithoutTrapped(S, Smax, H) ==
    Div(Mul(H, Mul(S, Sub(One, srw_))),
        Mul(Sub(One, srw_), Sub(Sub(One, srw_), srn_)))

compute_h_FromSandSmax(S, Smax, H) ==
    Div(Mul(H, Sub(Mul(S, Sub(One, srw_)), Mul(Smax, srn_))),
        Mul(Sub(One, srw_), Sub(Sub(One, srw_), srn_)))

\* compute_hmax_FromSandSmax dividing by the mobile range 1 - srw_ - srn_
compute_hmax_OverMobileRange(S, Smax, H) ==
    Div(Mul(H, Smax), Sub(Sub(One, srw_), srn_))

compute_hmax_FromSandSmax(S, Smax, H) ==
    Div(Mul(H, Smax), Sub(One, srw_))

\* computeNonWettingPhaseRelPerm scaling by hmax in place of h
computeNonWettingPhaseRelPerm_OfHmax(h, hmax, H) ==
    Mul(krnEndPoint_, Div(hmax, H))

computeNonWettingPhaseRelPerm(h, hmax, H) ==
    Mul(krnEndPoint_, Div(h, H))

\* computeWettingPhaseRelPerm whose first term is not divided by H
computeWettingPhaseRelPerm_Unscaled(h, hmax, H, viscosity_w) ==
    Add(Sub(H, hmax),
        Mul(Mul(viscosity_w, krwEndPoint_), Div(Sub(hmax, h), H)))

computeWettingPhaseRelPerm(h, hmax, H, viscosity_w) ==
    Add(Div(Sub(H, hmax), H),
        Mul(Mul(viscosity_w, krwEndPoint_), Div(Sub(hmax, h), H)))

\* a call of one of the const compute members: no check, no state change
ComputeCall(name, a, r) ==
    /\ Ready
    /\ op' = name
    /\ args' = a
    /\ ret' = <<r>>
    /\ UNCHANGED <<srw_, srn_, krnEndPoint_, krwEndPoint_, finalized_, finalizeCalled, aborted, values>>

call_compute_h_FromSandSmax(S, Smax, H) ==
    ComputeCall("compute_h_FromSandSmax", [S |-> S, Smax |-> Smax, H |-> H],
                compute_h_FromSandSmax(S, Smax, H))

call_compute_hmax_FromSandSmax(S, Smax, H) ==
    ComputeCall("compute_hmax_FromSandSmax", [S |-> S, Smax |-> Smax, H |-> H],
                compute_hmax_FromSandSmax(S, Smax, H))

call_computeNonWettingPhaseRelPerm(h, hmax, H) ==
    ComputeCall("computeNonWettingPhaseRelPerm", [h |-> h, hmax |-> hmax, H |-> H],
                computeNonWettingPhaseRelPerm(h, hmax, H))

call_computeWettingPhaseRelPerm(h, hmax, H, viscosity_w) ==
    ComputeCall("computeWettingPhaseRelPerm",
                [h |-> h, hmax |-> hmax, H |-> H, viscosity_w |-> viscosity_w],
                computeWettingPhaseRelPerm(h, hmax, H, viscosity_w))

(***************************************************************************)
(* The law.  The parameter functions declare the column height H as their  *)
(* last argument; the law's calls (lines 130, 167, 168, 171, 172) name the *)
(* other arguments only.  H is an input of each evaluation here, next to   *)
(* the fluid state, and is handed on to every parameter function.          *)
(***************************************************************************)
\* gravity acceleration, 9.80665
g == Rat(980665, 100000)

\* the place of a phase's entry in the output container <<wetting, nonWetting>>
Entry(phaseIdx) == phaseIdx + 1

\* capillaryPressuresValues that leaves the wetting entry as the plain law
\* wrote it
capillaryPressuresValues_KeepsWetting(baseline, fs, H) ==
    [baseline EXCEPT ![nonWettingPhaseIdx + 1] =
        Mul(Mul(Sub(fs.density_w, fs.density_n), Rat(980665, 100000)),
            Div(Mul(H, Sub(Mul(fs.S, Sub(One, srw_)), Mul(fs.Smax, srn_))),
                Mul(Sub(One, srw_), Sub(Sub(One, srw_), srn_))))]

\* capillaryPressuresValues with the two densities exchanged
capillaryPressuresValues_DensitiesSwapped(baseline, fs, H) ==
    << Zero,
       Mul(Mul(Sub(fs.density_n, fs.density_w), Rat(980665, 100000)),
           Div(Mul(H, Sub(Mul(fs.S, Sub(One, srw_)), Mul(fs.Smax, srn_))),
               Mul(Sub(One, srw_), Sub(Sub(One, srw_), srn_)))) >>

\* the container after capillaryPressures, which found `baseline` in it after
\* the plain law's evaluation
capillaryPressuresValues(baseline, fs, H) ==
    LET density_n == fs.density_n
        density_w == fs.density_w
        S == fs.S
        Smax == fs.Smax
        h == compute_h_FromSandSmax(S, Smax, H)
        v1 == [baseline EXCEPT ![Entry(wettingPhaseIdx)] = Zero]
    IN  [v1 EXCEPT ![Entry(nonWettingPhaseIdx)] =
                       Mul(Mul(Sub(density_w, density_n), g), h)]

\* RegularizedBrooksCorey::capillaryPressures (the plain law) reads its
\* parameters through the checked getters and then leaves `baseline`
capillaryPressures(fs, H, baseline) ==
    /\ Ready
    /\ op' = "capillaryPressures"
    /\ args' = [fs |-> fs, H |-> H, baseline |-> baseline]
    /\ IF EnsureFinalized_check
         THEN values' = capillaryPressuresValues(baseline, fs, H) /\ aborted' = FALSE
         ELSE values' = <<>> /\ aborted' = TRUE
    /\ UNCHANGED <<srw_, srn_, krnEndPoint_, krwEndPoint_, finalized_, finalizeCalled, ret>>

\* the container <<wetting, nonWetting>> after relativePermeabilities: both
\* entries are assigned
relativePermeabilitiesValues(fs, H) ==
    LET S == fs.S
        Smax == fs.Smax
        h == compute_h_FromSandSmax(S, Smax, H)
        hmax == compute_hmax_FromSandSmax(S, Smax, H)
        viscosity_w == fs.viscosity_w
    IN  [i \in {Entry(wettingPhaseIdx), Entry(nonWettingPhaseIdx)} |->
            IF i = Entry(wettingPhaseIdx)
              THEN computeWettingPhaseRelPerm(h, hmax, H, viscosity_w)
              ELSE computeNonWettingPhaseRelPerm(h, hmax, H)]

\* relativePermeabilities that folds the wetting viscosity into the stored
\* end point instead of multiplying at each evaluation
relativePermeabilities_FoldsViscosity(fs, H) ==
    /\ Ready
    /\ op' = "relativePermeabilities"
    /\ args' = [fs |-> fs, H |-> H]
    /\ values' = relativePermeabilitiesValues(fs, H)
    /\ krwEndPoint_' = Mul(fs.viscosity_w, krwEndPoint_)
    /\ UNCHANGED <<srw_, srn_, krnEndPoint_, finalized_, finalizeCalled, aborted, ret>>

relativePermeabilities(fs, H) ==
    /\ Ready
    /\ op' = "relativePermeabilities"
    /\ args' = [fs |-> fs, H |-> H]
    /\ values' = relativePermeabilitiesValues(fs, H)
    /\ UNCHANGED <<srw_, srn_, krnEndPoint_, krwEndPoint_, finalized_, finalizeCalled, aborted, ret>>

\* saturationsValues that, as capillaryPressures does, writes a value of the
\* VE model over the plain law's non-wetting entry
saturationsValues_OverwritesNonWetting(plain, fs) ==
    [plain EXCEPT ![Entry(nonWettingPhaseIdx)] = fs.Smax]

\* the container after saturations, which found `plain` in it after the
\* plain law's evaluation: nothing more is written
saturationsValues(plain, fs) == plain

\* RegularizedBrooksCorey::saturations (the plain law) reads its parameters
\* through the checked getters and then leaves `plain`
saturations(fs, plain) ==
    /\ Ready
    /\ op' = "saturations"
    /\ args' = [fs |-> fs, plain |-> plain]
    /\ IF EnsureFinalized_check
         THEN values' = saturationsValues(plain, fs) /\ aborted' = FALSE
         ELSE values' = <<>> /\ aborted' = TRUE
    /\ UNCHANGED <<srw_, srn_, krnEndPoint_, krwEndPoint_, finalized_, finalizeCalled, ret>>

\* the caller drops the result of its last call and goes on
Discard ==
    /\ ~aborted
    /\ op # "none"
    /\ op' = "none"
    /\ args' = NoArgs
    /\ ret' = <<>>
    /\ values' = <<>>
    /\ UNCHANGED <<srw_, srn_, krnEndPoint_, krwEndPoint_, finalized_, finalizeCalled, aborted>>

Next ==
    \/ \E v \in KrnEndPoints : setKrnEndPoint(v)
    \/ \E v \in KrwEndPoints : setKrwEndPoint(v)
    \/ \E i \in PhaseIndices, v \in Residuals : setResidualSaturation(i, v)
    \/ finalizePlain
    \/ finalize
    \/ krnEndPoint
    \/ krwEndPoint
    \/ \E i \in PhaseIndices : getResidualSaturation(i)
    \/ \E S \in Saturations, Smax \in Saturations, H \in Heights :
          call_compute_h_FromSandSmax(S, Smax, H)
    \/ \E S \in Saturations, Smax \in Saturations, H \in Heights :
          call_compute_hmax_FromSandSmax(S, Smax, H)
    \/ \E h \in InterfaceHeights, hmax \in InterfaceHeights, H \in Heights :
          call_computeNonWettingPhaseRelPerm(h, hmax, H)
    \/ \E h \in InterfaceHeights, hmax \in InterfaceHeights, H \in Heights,
          mu \in Viscosities :
          call_computeWettingPhaseRelPerm(h, hmax, H, mu)
    \/ \E fs \in FluidStates, H \in Heights, b \in Baselines :
          capillaryPressures(fs, H, b)
    \/ \E fs \in FluidStates, H \in Heights : relativePermeabilities(fs, H)
    \/ \E fs \in FluidStates, plain \in PlainSaturations : saturations(fs, plain)
    \/ Discard

Spec == Init /\ [][Next]_vars

(***************************************************************************)
(* Properties.                                                             *)
(***************************************************************************)
\* the data model's valid parameter sets: Srw, Srn in [0,1], Srw + Srn < 1
ValidParams ==
    /\ Le(Zero, srw_) /\ Le(srw_, One)
    /\ Le(Zero, srn_) /\ Le(srn_, One)
    /\ Lt(Add(srw_, srn_), One)

Getters == {"krnEndPoint", "krwEndPoint", "getResidualSaturation"}

\* C1: on an object whose finalize() was never called, a call of krnEndPoint,
\* krwEndPoint or getResidualSaturation ends in a contract violation and
\* returns no value, whatever setters were called before.
C1_UnfinalizedReadFails ==
    (op \in Getters /\ ~finalizeCalled) => (aborted /\ ret = <<>>)

\* C2: once finalize() has been called on the default-constructed object,
\* krnEndPoint() and krwEndPoint() pass the finalized check and return the
\* field as the setters left it (0.01 when never set).
C2_FinalizeMakesReadable ==
    /\ (op = "krnEndPoint" /\ finalizeCalled) => (~aborted /\ ret = <<krnEndPoint_>>)
    /\ (op = "krwEndPoint" /\ finalizeCalled) => (~aborted /\ ret = <<krwEndPoint_>>)

\* C3: capillaryPressures and relativePermeabilities called with a parameter
\* object that is not finalized end in a contract violation and write no
\* result values, for every fluid state.
C3_UnfinalizedEvaluationFails ==
    (op \in {"capillaryPressures", "relativePermeabilities"} /\ ~finalized_)
        => (aborted /\ values = <<>>)

\* a direct call of one of the two height functions, and the two heights of
\* its arguments (the one returned, the other evaluated on the same arguments)
HeightCall == op \in {"compute_h_FromSandSmax", "compute_hmax_FromSandSmax"}

CalledH ==
    IF op = "compute_h_FromSandSmax" THEN ret[1]
    ELSE compute_h_FromSandSmax(args.S, args.Smax, args.H)

CalledHmax ==
    IF op = "compute_hmax_FromSandSmax" THEN ret[1]
    ELSE compute_hmax_FromSandSmax(args.S, args.Smax, args.H)

\* C4 as stated: for valid parameters, H > 0 and 0 <= S <= Smax <= 1 the
\* heights satisfy 0 <= h <= hmax <= H.
C4_HeightsOrdered ==
    (HeightCall /\ ValidParams /\ Le(args.S, args.Smax))
        => (Le(Zero, CalledH) /\ Le(CalledH, CalledHmax) /\ Le(CalledHmax, args.H))

\* C4 amended: for valid parameters, H > 0 and 0 <= S <= Smax <= 1,
\* h <= hmax always; 0 <= h exactly when Smax*Srn <= S*(1-Srw); hmax <= H
\* exactly when Smax <= 1-Srw.
C4_HeightsOrderedAmended ==
    (HeightCall /\ ValidParams /\ Le(args.S, args.Smax))
        => /\ Le(CalledH, CalledHmax)
           /\ Le(Zero, CalledH)
                <=> Le(Mul(args.Smax, srn_), Mul(args.S, Sub(One, srw_)))
           /\ Le(CalledHmax, args.H) <=> Le(args.Smax, Sub(One, srw_))

\* C4's case: both residuals positive, S strictly below Smax, and the chain
\* 0 <= h <= hmax <= H holds with h > 0
C4_Witness ==
    /\ op = "compute_h_FromSandSmax" /\ ValidParams
    /\ Lt(Zero, srw_) /\ Lt(Zero, srn_)
    /\ Lt(args.S, args.Smax)
    /\ Lt(Zero, ret[1]) /\ Le(CalledHmax, args.H)

\* C5: at S = Smax the current height equals the maximum height, for every
\* valid parameter set.
C5_NoGapAtMaximum ==
    (HeightCall /\ ValidParams /\ args.S = args.Smax) => CalledH = CalledHmax

C5_Witness ==
    /\ op = "compute_hmax_FromSandSmax" /\ ValidParams
    /\ Lt(Zero, srw_) /\ Lt(Zero, srn_)
    /\ args.S = args.Smax /\ Lt(Zero, args.S)
    /\ Lt(Zero, ret[1])

\* C6: on return from capillaryPressures the wetting entry is 0 and the
\* non-wetting entry is (density_w - density_n) * 9.80665 * h, h being the
\* interface height of S and Smax; nothing of what the plain law left in the
\* container remains.
C6_CapillaryPressuresOverwritesBaseline ==
    (op = "capillaryPressures" /\ ~aborted)
        => /\ values[Entry(wettingPhaseIdx)] = Zero
           /\ values[Entry(nonWettingPhaseIdx)] =
                 Mul(Mul(Sub(args.fs.density_w, args.fs.density_n),
                         Rat(980665, 100000)),
                     compute_h_FromSandSmax(args.fs.S, args.fs.Smax, args.H))

\* C6's case: the plain law left non-zero values in both entries, and the
\* hydrostatic pressure written over them is another, non-zero value
C6_Witness ==
    /\ op = "capillaryPressures" /\ ~aborted
    /\ args.baseline[Entry(wettingPhaseIdx)] # Zero
    /\ IsFinite(values[Entry(nonWettingPhaseIdx)])
    /\ values[Entry(nonWettingPhaseIdx)] # Zero
    /\ values[Entry(nonWettingPhaseIdx)] # args.baseline[Entry(nonWettingPhaseIdx)]

\* C7 as stated: for valid parameters and 0 <= S <= Smax <= 1 the non-wetting
\* capillary pressure has the sign of density_w - density_n.
C7_PressureSignFollowsDensities ==
    (op = "capillaryPressures" /\ ~aborted /\ ValidParams)
        => Sign(values[Entry(nonWettingPhaseIdx)])
             = Sign(Sub(args.fs.density_w, args.fs.density_n))

\* C7 amended: the sign of the non-wetting capillary pressure is the sign of
\* density_w - density_n times the sign of S*(1-Srw) - Smax*Srn: it follows
\* the densities when S*(1-Srw) > Smax*Srn, is zero when the two are equal,
\* and is opposite when S*(1-Srw) < Smax*Srn.
C7_PressureSignAmended ==
    (op = "capillaryPressures" /\ ~aborted /\ ValidParams)
        => Sign(values[Entry(nonWettingPhaseIdx)])
             = Sign(Sub(args.fs.density_w, args.fs.density_n))
               * Sign(Sub(Mul(args.fs.S, Sub(One, srw_)),
                          Mul(args.fs.Smax, srn_)))

\* C7's case: a lighter non-wetting phase, a positive height below the
\* historical maximum with trapping, and a positive pressure
C7_Witness ==
    /\ op = "capillaryPressures" /\ ~aborted /\ ValidParams
    /\ Lt(Zero, srn_)
    /\ Lt(args.fs.density_n, args.fs.density_w)
    /\ Lt(args.fs.S, args.fs.Smax)
    /\ Sign(values[Entry(nonWettingPhaseIdx)]) = 1

\* the heights of section 4.2, written out for the fluid state of the call
RefH ==
    Div(Mul(args.H, Sub(Mul(args.fs.S, Sub(One, srw_)), Mul(args.fs.Smax, srn_))),
        Mul(Sub(One, srw_), Sub(One, Add(srw_, srn_))))

RefHmax == Div(Mul(args.H, args.fs.Smax), Sub(One, srw_))

C9_KrnMonotoneInHeight ==
    op = "computeNonWettingPhaseRelPerm"
        => /\ \A h2 \in InterfaceHeights :
                Le(args.h, h2)
                  => Le(ret[1], computeNonWettingPhaseRelPerm(h2, args.hmax, args.H))
           /\ args.h = Zero => ret[1] = Zero
           /\ args.h = args.H => ret[1] = krnEndPoint_
           /\ \A hmax2 \in InterfaceHeights :
                computeNonWettingPhaseRelPerm(args.h, hmax2, args.H) = ret[1]

\* C10: computeWettingPhaseRelPerm returns exactly 1 at h = 0 and hmax = 0,
\* for every H > 0, viscosity and krwEndPoint.
C10_FullyWettingColumnHasUnitKrw ==
    (op = "computeWettingPhaseRelPerm" /\ args.h = Zero /\ args.hmax = Zero)
        => ret = <<One>>

\* C10's case: a column of height other than 1 and an end point that was set
C10_Witness ==
    /\ op = "computeWettingPhaseRelPerm" /\ args.h = Zero /\ args.hmax = Zero
    /\ args.H # One
    /\ krwEndPoint_ # Rat(1, 100)
    /\ ret = <<One>>

\* C11: once the object is finalized (finalize() was called, or the
\* finalized flag is set) no later operation changes Srw, Srn, krnEndPoint
\* or krwEndPoint.
C11_ReadOnlyAfterFinalization ==
    [][(finalized_ \/ finalizeCalled)
          => <<srw_, srn_, krnEndPoint_, krwEndPoint_>>'
               = <<srw_, srn_, krnEndPoint_, krwEndPoint_>>]_vars

EvaluationOps ==
    {"compute_h_FromSandSmax", "compute_hmax_FromSandSmax",
     "capillaryPressures", "relativePermeabilities"}

\* C12: from a parameter set outside the data model's invariant (Srw or Srn
\* outside [0,1], or Srw + Srn >= 1) no height, relative permeability or
\* capillary pressure is computed: the call ends in a contract violation
\* and leaves no result.
C12_InvalidParamsRejected ==
    (op \in EvaluationOps /\ ~ValidParams)
        => (aborted /\ ret = <<>> /\ values = <<>>)

\* C13: saturations hands on what the plain law's saturations produced and
\* nothing else: on a finalized object the container holds exactly the plain
\* law's output, whatever Smax, Srw, Srn, krnEndPoint and krwEndPoint are;
\* on an object that is not finalized the plain law's contract violation
\* ends the call.
C13_SaturationsIsThePlainLaw ==
    op = "saturations"
        => IF finalized_ THEN ~aborted /\ values = args.plain
                         ELSE aborted /\ values = <<>>

\* C13's case: parameters of the VE model that were set (trapping, end
\* point), a fluid state below its historical maximum, and an output that
\* is the plain law's and not the historical maximum
C13_Witness ==
    /\ op = "saturations" /\ ~aborted /\ ValidParams
    /\ Lt(Zero, srw_) /\ Lt(Zero, srn_)
    /\ krnEndPoint_ # Rat(1, 100)
    /\ Lt(args.fs.S, args.fs.Smax)
    /\ values = args.plain
    /\ values[Entry(nonWettingPhaseIdx)] # args.fs.Smax

LawOps == {"capillaryPressures", "relativePermeabilities", "saturations"}

\* what the law's operation o computes from the call's inputs a and the
\* parameter object as it is
LawOutput(o, a) ==
    CASE o = "capillaryPressures" -> capillaryPressuresValues(a.baseline, a.fs, a.H)
      [] o = "relativePermeabilities" -> relativePermeabilitiesValues(a.fs, a.H)
      [] o = "saturations" -> saturationsValues(a.plain, a.fs)

=============================================================================
